---------------------------- MODULE Spec2Model ----------------------------
(***************************************************************************)
(* A model of webhook_api.py: the TradingView -> Capital.com order relay.  *)
(*                                                                         *)
(*   - the idempotency store (_load_ids, _save_ids, already_processed,     *)
(*     mark_processed) over a clock that counts fractions of a day;        *)
(*   - the session gateway (login_to_capital, capital_request) as the set  *)
(*     of outcomes one call can have over the broker's possible answers;   *)
(*   - the webhook handler (handle_webhook) as a sequential process whose  *)
(*     steps are its broker calls.                                         *)
(*                                                                         *)
(* Prices are integer ticks, order sizes are integers scaled by 100        *)
(* (1.7 is 170).  Python's None is None for strings and NoNum for numbers. *)
(***************************************************************************)
EXTENDS Integers, Sequences, FiniteSets, TLC

VARIABLES
    CST, XST,      \* the process-wide session tokens (lines 14-15)
    store,         \* processed_signals.json: signal_id -> ISO timestamp
    now,           \* the UTC clock, in ticks of 1/TicksPerDay day
    markedAt,      \* history: the tick at which mark_processed last stamped an id
    servedAt,      \* history: the tick at which a delivery carrying an id last
                   \* returned 200 after doing its work (not as a duplicate)
    lastOp,        \* the last direct call of a store function, with its result
    gw,            \* the last completed capital_request call, with its HTTP trace
    pc,            \* the handler's position: "idle", "call", "done"
    sig,           \* the signal being handled (fields of the JSON payload)
    cur,           \* the broker call the handler is about to make
    pos,           \* the position snapshot find_position returned
    calls,         \* the broker calls this delivery has made, in order
    outcome,       \* what the delivery returned
    disk,          \* whether processed_signals.json can be written: "ok", "readonly"
    tasks,         \* the handler coroutines of concurrent deliveries, by task
    loop           \* the task the event loop is running (0: none)

vars == <<CST, XST, store, now, markedAt, servedAt, lastOp, gw, pc, sig, cur, pos, calls, outcome,
          disk, tasks, loop>>

----------------------------------------------------------------------------
(* Values *)

None == "None"
NoNum == -1
BadNum == -2
\* A payload field the handler has not evaluated yet
Unread == "Unread"
UnreadNum == -3

\* Python truthiness of an Optional[str] (not x)
Truthy(s) == s # None /\ s # ""

----------------------------------------------------------------------------
(* Bounds *)

TicksPerDay == 2
MaxStoreClock == 7
MaxClock == 1
MaxPositions == 2
MaxTasks == 2

----------------------------------------------------------------------------
(* Configuration (lines 17-37) *)

SYMBOL_EPIC_MAP ==
    [s \in {"GOLD", "NVDA"} |->
        IF s = "GOLD" THEN [epic |-> "GOLD", size |-> 170]
                      ELSE [epic |-> "NVDA", size |-> 800]]

\* SL_ABS_TICK = 0 (off); SL_PCT_MIN = 0.001 = SL_PCT_MIN_NUM / SL_PCT_MIN_DEN
SL_ABS_TICK == 0
SL_PCT_MIN_NUM == 1
SL_PCT_MIN_DEN == 1000

IDEMP_TTL_DAYS == 2

----------------------------------------------------------------------------
(* Idempotency store (lines 143-174) *)

\* datetime.isoformat() and datetime.fromisoformat(): the file holds strings
isoformat(t) == [iso |-> t]
IsIso(s) == DOMAIN s = {"iso"}
fromisoformat(s) == s.iso

\* timedelta.days: whole days, rounded down
days(delta) == IF delta >= 0 THEN delta \div TicksPerDay
               ELSE -((-delta + TicksPerDay - 1) \div TicksPerDay)

EmptyDict == [k \in {} |-> None]

\* The entries _load_ids keeps (lines 150-157)
Pruned(data, clock) ==
    LET kept == {k \in DOMAIN data :
                    IsIso(data[k]) /\ days(clock - fromisoformat(data[k])) <= IDEMP_TTL_DAYS}
    IN  [k \in kept |-> data[k]]

\* _load_ids: the dict returned and the file as it leaves it (rewritten when
\* something was pruned, lines 158-159)
_load_ids(file, clock) ==
    LET keep == Pruned(file, clock)
    IN  [data |-> keep, file |-> IF keep # file THEN keep ELSE file]

_save_ids(data) == data

already_processed(signal_id, file, clock) ==
    IF ~Truthy(signal_id)
    THEN [ret |-> FALSE, file |-> file]
    ELSE LET l == _load_ids(file, clock)
         IN  [ret |-> signal_id \in DOMAIN l.data, file |-> l.file]

mark_processed_unguarded(signal_id, file, clock) ==
    LET l    == _load_ids(file, clock)
        data == [k \in DOMAIN l.data \cup {signal_id} |->
                    IF k = signal_id THEN isoformat(clock) ELSE l.data[k]]
    IN  [file |-> _save_ids(data), marked |-> TRUE]

\* mark_processed: the file as it leaves it, and whether it stamped the id
mark_processed(signal_id, file, clock) ==
    IF ~Truthy(signal_id)
    THEN [file |-> file, marked |-> FALSE]
    ELSE LET l    == _load_ids(file, clock)
             data == [k \in DOMAIN l.data \cup {signal_id} |->
                         IF k = signal_id THEN isoformat(clock) ELSE l.data[k]]
         IN  [file |-> _save_ids(data), marked |-> TRUE]

\* signal_id: Optional[str] (lines 165, 170)
SignalIds == {None, "", "a"}
StoreIds == SignalIds \cup {"b"}

Stamp(history, id, marked, clock) ==
    IF marked THEN [history EXCEPT ![id] = clock] ELSE history

----------------------------------------------------------------------------
(* Session gateway (lines 46-84) *)

Tok == "tok"

\* What the broker can answer to POST /api/v1/session: a status and the two
\* token headers; status 0 stands for requests raising (timeout, no connection)
LoginResponses ==
    { [status |-> 200, errorCode |-> "", CST |-> Tok,  XST |-> Tok],
      [status |-> 200, errorCode |-> "", CST |-> None, XST |-> Tok],
      [status |-> 200, errorCode |-> "", CST |-> Tok,  XST |-> None],
      [status |-> 401, errorCode |-> "", CST |-> None, XST |-> None],
      [status |-> 0,   errorCode |-> "", CST |-> None, XST |-> None] }

ExpiredCodes == {"error.invalid.session.token", "error.security.account.token.invalid"}

Response(status, errorCode) ==
    [status |-> status, errorCode |-> errorCode, CST |-> None, XST |-> None]

\* What the broker can answer to a request that carries both tokens
BrokerResponses ==
    { Response(200, ""), Response(201, ""), Response(204, ""),
      Response(400, "error.invalid.request"), Response(401, ""),
      Response(400, "error.invalid.session.token"),
      Response(400, "error.security.account.token.invalid"),
      Response(0, "") }

\* ... and to a request that lacks a token: never a success
UnauthenticatedResponses == { Response(401, ""), Response(0, "") }

Authenticated(toks) == Truthy(toks.CST) /\ Truthy(toks.XST)

ResponsesTo(toks) ==
    IF Authenticated(toks) THEN BrokerResponses ELSE UnauthenticatedResponses

\* login_to_capital on the broker's answer l: raises, or stores the headers
login_to_capital(toks, l) ==
    IF l.status # 200
    THEN [raised |-> TRUE,  CST |-> toks.CST, XST |-> toks.XST]
    ELSE [raised |-> FALSE, CST |-> l.CST,    XST |-> l.XST]

\* lines 71-77
needs_relogin(r) == r.status = 401 \/ r.errorCode \in ExpiredCodes

LoginReq == [method |-> "POST", path |-> "/api/v1/session", body |-> None]

Event(k, req, r, raised, toks) ==
    [k |-> k, req |-> req, status |-> r.status, errorCode |-> r.errorCode,
     raised |-> raised, CST |-> toks.CST, XST |-> toks.XST]

\* A login made inside capital_request, appended to the call's HTTP trace
LoginStep(toks, http) ==
    { LET lg == login_to_capital(toks, l)
      IN  [raised |-> lg.raised,
           toks   |-> [CST |-> lg.CST, XST |-> lg.XST],
           http   |-> Append(http, Event("login", LoginReq, l, lg.raised,
                                         [CST |-> lg.CST, XST |-> lg.XST]))]
      : l \in LoginResponses }

Raised(st) ==
    [raised |-> TRUE, r |-> Response(0, ""), CST |-> st.toks.CST, XST |-> st.toks.XST,
     http |-> st.http]

\* capital_request: every outcome the call can have, whatever the broker
\* answers.  An outcome is the response returned (or the exception raised),
\* the tokens left behind and the HTTP exchanges made, in order.
RECURSIVE capital_request(_, _, _, _)
capital_request(toks, req, retry, http) ==
    LET entered == IF ~Authenticated(toks)                             \* 60-61
                   THEN LoginStep(toks, http)
                   ELSE {[raised |-> FALSE, toks |-> toks, http |-> http]}
        Sent(st) ==                                                     \* 62-84
            UNION { LET h == Append(st.http, Event("send", req, r, r.status = 0, st.toks))
                    IN  IF r.status = 0
                        THEN {Raised([toks |-> st.toks, http |-> h])}
                        ELSE IF needs_relogin(r) /\ retry
                        THEN UNION { IF lg.raised
                                     THEN {Raised(lg)}
                                     ELSE capital_request(lg.toks, req, FALSE, lg.http)
                                     : lg \in LoginStep(st.toks, h) }
                        ELSE {[raised |-> FALSE, r |-> r, CST |-> st.toks.CST,
                               XST |-> st.toks.XST, http |-> h]}
                    : r \in ResponsesTo(st.toks) }
    IN  UNION { IF st.raised THEN {Raised(st)} ELSE Sent(st) : st \in entered }

Requests ==
    { [method |-> "GET",    path |-> "/api/v1/positions",        body |-> None],
      [method |-> "POST",   path |-> "/api/v1/positions",        body |-> None],
      [method |-> "PUT",    path |-> "/api/v1/positions/otc/D1", body |-> None],
      [method |-> "DELETE", path |-> "/api/v1/positions/otc/D1", body |-> None] }

\* What a caller of capital_request sees: the response or the exception, and
\* the tokens left behind
CallResults(toks, req) ==
    { [raised |-> o.raised, r |-> o.r, CST |-> o.CST, XST |-> o.XST] :
        o \in capital_request(toks, req, TRUE, <<>>) }

\* One capital_request call, start to end
GatewayCall(req) ==
    /\ pc = "idle"
    /\ \E o \in capital_request([CST |-> CST, XST |-> XST], req, TRUE, <<>>) :
          /\ CST' = o.CST
          /\ XST' = o.XST
          /\ gw' = [op |-> "capital_request", req |-> req, raised |-> o.raised,
                    r |-> o.r, http |-> o.http]
    /\ UNCHANGED <<store, now, markedAt, servedAt, lastOp, pc, sig, cur, pos, calls, outcome>>
    /\ UNCHANGED <<disk, tasks, loop>>

----------------------------------------------------------------------------
(* Position resolver (lines 86-110) *)

TruthyNum(n) == n # NoNum /\ n # 0
OrStr(a, b) == IF Truthy(a) THEN a ELSE b
OrNum(a, b) == IF TruthyNum(a) THEN a ELSE b

NoSub ==
    [dealId |-> None, epic |-> None, size |-> NoNum, direction |-> None,
     stopLevel |-> NoNum, level |-> NoNum, openLevel |-> NoNum]

\* A broker position record in the flat shape, and in the nested one
RawFlat(d, e, s, dir, sl, lv) ==
    [dealId |-> d, epic |-> e, size |-> s, direction |-> dir, stopLevel |-> sl,
     level |-> lv, position |-> NoSub, market |-> [epic |-> None]]

RawNested(d, e, s, dir, sl, lv) ==
    [dealId |-> None, epic |-> None, size |-> NoNum, direction |-> None,
     stopLevel |-> NoNum, level |-> NoNum,
     position |-> [dealId |-> d, epic |-> None, size |-> s, direction |-> dir,
                   stopLevel |-> sl, level |-> lv, openLevel |-> NoNum],
     market |-> [epic |-> e]]

parse_pos(p) ==
    LET deal_id == OrStr(p.dealId, p.position.dealId)
        epic    == OrStr(OrStr(p.epic, p.market.epic), p.position.epic)
        size    == OrNum(p.size, p.position.size)
        dir_    == OrStr(p.direction, p.position.direction)
        sl      == OrNum(p.stopLevel, p.position.stopLevel)
        avg     == OrNum(OrNum(p.level, p.position.level), p.position.openLevel)
    IN  [found |-> TRUE, dealId |-> deal_id, epic |-> epic,
         size |-> IF TruthyNum(size) THEN size ELSE 0,
         direction |-> dir_,
         stopLevel |-> IF TruthyNum(sl) THEN sl ELSE NoNum,
         avg |-> IF TruthyNum(avg) THEN avg ELSE NoNum]

NoPos ==
    [found |-> FALSE, dealId |-> None, epic |-> None, size |-> 0, direction |-> None,
     stopLevel |-> NoNum, avg |-> NoNum]

\* find_position: the first position of the list whose epic matches
find_position(epic, positions) ==
    LET hits == {i \in DOMAIN positions : parse_pos(positions[i]).epic = epic}
    IN  IF hits = {} THEN NoPos
        ELSE parse_pos(positions[CHOOSE i \in hits : \A j \in hits : i <= j])

\* The position lists the broker may return
RawPositions ==
    { RawFlat(d, "GOLD", 1000, dir, sl[1], sl[2]) :
        d \in {"D1", None}, dir \in {"BUY", "SELL"},
        sl \in {<<NoNum, 2000>>, <<1000, 2000>>, <<1000, NoNum>>} }
    \cup { RawNested("D1", "GOLD", 1000, "BUY", 1000, 2000),
           RawFlat("D3", "NVDA", 300, "SELL", NoNum, 2000) }

Snapshots == UNION { [1..n -> RawPositions] : n \in 0..MaxPositions }

\* What find_position can return for an epic, over the lists the broker may send
Found(epic) == { find_position(epic, snap) : snap \in Snapshots }

\* ... for each epic of the registry
FoundBy == [epic \in {SYMBOL_EPIC_MAP[sy].epic : sy \in DOMAIN SYMBOL_EPIC_MAP} |-> Found(epic)]

----------------------------------------------------------------------------
(* Stop-loss threshold and the calls the engine makes (lines 112-141) *)

Abs(x) == IF x < 0 THEN -x ELSE x

\* need_sl_change under the settings abs_tick (SL_ABS_TICK) and
\* pct_num / pct_den (SL_PCT_MIN), which come from the environment; numeric
\* arguments, NoNum is None; pct_diff >= SL_PCT_MIN is compared without
\* division
need_sl_change_with(abs_tick, pct_num, pct_den, current_sl, new_sl, ref_price) ==
    IF new_sl = NoNum THEN FALSE
    ELSE IF current_sl = NoNum THEN TRUE
    ELSE LET abs_diff == Abs(current_sl - new_sl)
         IN  IF abs_tick > 0 /\ abs_diff >= abs_tick THEN TRUE
             ELSE IF TruthyNum(ref_price)
                  THEN abs_diff * pct_den >= pct_num * ref_price
                  ELSE 0 >= pct_num

need_sl_change_always(current_sl, new_sl, ref_price) == TRUE

need_sl_change_any_difference(current_sl, new_sl, ref_price) ==
    new_sl # NoNum /\ (current_sl = NoNum \/ current_sl # new_sl)

\* need_sl_change as the process runs it, with the default settings
need_sl_change(current_sl, new_sl, ref_price) ==
    need_sl_change_with(SL_ABS_TICK, SL_PCT_MIN_NUM, SL_PCT_MIN_DEN, current_sl, new_sl, ref_price)

\* float(x) raises on a value that is not a number
FloatRaises(x) == x = BadNum

\* need_sl_change raises where it reaches float(new_sl) (line 115)
NeedSlRaises(current_sl, new_sl) ==
    new_sl # NoNum /\ current_sl # NoNum /\ FloatRaises(new_sl)

Call(op, dealId, direction, size, sl, tp, ctx) ==
    [op |-> op, dealId |-> dealId, direction |-> direction, size |-> size,
     stopLevel |-> sl, limitLevel |-> tp, ctx |-> ctx, result |-> "pending"]

NoCall == Call("none", None, None, NoNum, NoNum, NoNum, "none")

RequestOf(c) ==
    CASE c.op = "list"   -> [method |-> "GET",    path |-> "/api/v1/positions", body |-> None]
      [] c.op = "amend"  -> [method |-> "PUT",    path |-> "/api/v1/positions/otc/", body |-> c]
      [] c.op = "delete" -> [method |-> "DELETE", path |-> "/api/v1/positions/otc/", body |-> c]
      [] OTHER           -> [method |-> "POST",   path |-> "/api/v1/positions", body |-> c]

----------------------------------------------------------------------------
(* The webhook handler (lines 177-301) *)

\* The payload is read-only; a field enters sig where the handler first
\* evaluates it and is Unread before (the fields drawn later are independent
\* of everything drawn before, so this is every payload)
NoSignal ==
    [symbol |-> Unread, action |-> Unread, intent |-> Unread, side |-> Unread,
     stop_loss |-> UnreadNum, take_profit |-> UnreadNum, size |-> UnreadNum,
     signal_id |-> Unread, json |-> TRUE]

BadJson == [NoSignal EXCEPT !.json = FALSE]

Symbols     == {None, "GOLD", "NVDA", "XAU"}
Actions     == {None, "buy", "sell", "close", "hold"}
Intents     == {None, "close", "close_partial"}
Sides       == {None, "long", "short"}
StopLosses  == {NoNum, 1001, 1002, BadNum}
TakeProfits == {NoNum, 3000}
Sizes       == {NoNum, 50, BadNum}

\* The fields lines 179-207 evaluate
Payloads ==
    { [NoSignal EXCEPT !.symbol = sy, !.action = a, !.signal_id = id, !.size = sz] :
        sy \in Symbols, a \in Actions, id \in SignalIds, sz \in Sizes }

\* The fields the decision on snapshot p evaluates (lines 213-284)
ReadAtEntry(s) ==
    { [s EXCEPT !.stop_loss = sl, !.take_profit = tp] : sl \in StopLosses, tp \in TakeProfits }

ReadAtDecide(s, p) ==
    UNION { LET si == [s EXCEPT !.intent = i]
            IN  IF si.action = "close" \/ i = "close"
                THEN IF p.found THEN { [si EXCEPT !.side = sd] : sd \in Sides } ELSE {si}
                ELSE IF p.found /\ p.direction # (IF si.action = "buy" THEN "BUY" ELSE "SELL")
                     THEN {si}
                     ELSE ReadAtEntry(si)
            : i \in Intents }

\* ... and the fields evaluated after call c returned r: the entry's, once
\* the opposite position is closed
ReadAfter(s, c, r) ==
    IF c.ctx = "flip" /\ (  (c.op = "delete" /\ r.status \in {200, 204})
                          \/ (c.op = "close_order" /\ r.status = 200))
    THEN ReadAtEntry(s)
    ELSE {s}

NoOutcome == [code |-> 0, status |-> "none"]

\* What the handler does next: return, or make a broker call
Return(code, status, mark) == [kind |-> "return", code |-> code, status |-> status, mark |-> mark, call |-> NoCall]
Error_marked(code) == Return(code, "error", TRUE)
Error(code) == Return(code, "error", FALSE)
Finish_unmarked(status) == Return(200, status, FALSE)
Finish(status) == Return(200, status, TRUE)
Then(call) == [kind |-> "call", code |-> 0, status |-> "none", mark |-> FALSE, call |-> call]

dir_open_req_buy(s) == "BUY"
dir_open_req(s) == IF s.action = "buy" THEN "BUY" ELSE "SELL"
close_direction_same(p) == p.direction
close_direction(p) == IF p.direction = "BUY" THEN "SELL" ELSE "BUY"
epic_of(s) == SYMBOL_EPIC_MAP[s.symbol].epic
size_of_default(s) == SYMBOL_EPIC_MAP[s.symbol].size
size_of(s) == IF s.size = NoNum THEN SYMBOL_EPIC_MAP[s.symbol].size ELSE s.size

\* lines 280-287: the entry order
Entry(s) ==
    IF (s.stop_loss # NoNum /\ FloatRaises(s.stop_loss))
       \/ (s.take_profit # NoNum /\ FloatRaises(s.take_profit))
    THEN Error(500)
    ELSE Then(Call("entry", None, dir_open_req(s), size_of(s), s.stop_loss, s.take_profit, "open"))

\* lines 232-241 and 268-275: DELETE by deal id, else the counter-order
CounterOrder(p, ctx) == Call("close_order", None, close_direction(p), p.size, NoNum, NoNum, ctx)

Close(p, ctx) ==
    IF Truthy(p.dealId)
    THEN Then(Call("delete", p.dealId, None, NoNum, NoNum, NoNum, ctx))
    ELSE Then(CounterOrder(p, ctx))

\* amend_stop_limit up to its PUT: float() may raise, and an empty payload
\* returns without a call (lines 122-128)
amend_stop_limit(deal_id, new_sl, new_tp) ==
    IF (new_sl # NoNum /\ FloatRaises(new_sl)) \/ (new_tp # NoNum /\ FloatRaises(new_tp))
    THEN Error(500)
    ELSE IF new_sl = NoNum /\ new_tp = NoNum
    THEN Finish("amended stop/limit")
    ELSE Then(Call("amend", deal_id, None, NoNum, new_sl, new_tp, "amend"))

\* lines 213-287: the decision on the snapshot p
Decide(s, p) ==
    IF s.action = "close" \/ s.intent = "close"
    THEN IF ~p.found THEN Finish("no_position_to_close")
         ELSE IF s.side = "long" /\ p.direction # "BUY" THEN Finish("mismatch_side_noop")
         ELSE IF s.side = "short" /\ p.direction # "SELL" THEN Finish("mismatch_side_noop")
         ELSE Close(p, "close")
    ELSE IF p.found /\ p.direction = dir_open_req(s)
    THEN IF NeedSlRaises(p.stopLevel, s.stop_loss) THEN Error(500)
         ELSE IF need_sl_change(p.stopLevel, s.stop_loss, p.avg) \/ s.take_profit # NoNum
         THEN amend_stop_limit(p.dealId, s.stop_loss, s.take_profit)
         ELSE Finish("ignored (dup entry / no SL change)")
    ELSE IF p.found /\ p.direction # dir_open_req(s)
    THEN Close(p, "flip")
    ELSE Entry(s)

\* What follows a broker call that returned response r
AfterClose(s, c) == IF c.ctx = "close" THEN Finish("positions closed") ELSE Entry(s)

After_unchecked_close(s, p, c, r) ==
    CASE c.op = "delete"      -> IF r.status \in {200, 204} THEN AfterClose(s, c)
                                 ELSE Then(CounterOrder(p, c.ctx))
      [] c.op = "close_order" -> AfterClose(s, c)
      [] c.op = "amend"       -> IF r.status \notin {200, 201} THEN Error(500)
                                 ELSE Finish("amended stop/limit")
      [] c.op = "entry"       -> IF r.status # 200 THEN Error(500)
                                 ELSE Finish("entry executed")

After(s, p, c, r) ==
    CASE c.op = "delete"      -> IF r.status \in {200, 204} THEN AfterClose(s, c)
                                 ELSE Then(CounterOrder(p, c.ctx))
      [] c.op = "close_order" -> IF r.status # 200 THEN Error(500) ELSE AfterClose(s, c)
      [] c.op = "amend"       -> IF r.status \notin {200, 201} THEN Error(500)
                                 ELSE Finish("amended stop/limit")
      [] c.op = "entry"       -> IF r.status # 200 THEN Error(500)
                                 ELSE Finish("entry executed")

\* open(IDEMP_STORE, "w") raises on a file that cannot be written: in the
\* prune-rewrite of _load_ids (lines 158-159) and in _save_ids (line 163)
LoadRaises(file, clock) == disk = "readonly" /\ Pruned(file, clock) # file
SaveRaises == disk = "readonly"

\* mark_processed raises (and handle_webhook turns that into a 500, line 301)
MarkRaises(signal_id, file, clock) ==
    Truthy(signal_id) /\ (LoadRaises(file, clock) \/ SaveRaises)

\* The handler moves on: to its next broker call, or to its return (with
\* mark_processed before a 200)
Proceed(step, s, file) ==
    LET marking == step.kind = "return" /\ step.mark
        failing == marking /\ MarkRaises(s.signal_id, file, now)
        eff     == IF failing THEN Error(500) ELSE step
        m       == IF marking /\ ~failing
                   THEN mark_processed(s.signal_id, file, now)
                   ELSE [file |-> file, marked |-> FALSE]
    IN  /\ store' = m.file
        /\ markedAt' = Stamp(markedAt, s.signal_id, m.marked, now)
        /\ servedAt' = Stamp(servedAt, s.signal_id,
                             eff.kind = "return" /\ eff.code = 200
                                /\ eff.status # "duplicate_ignored" /\ Truthy(s.signal_id),
                             now)
        /\ pc' = IF eff.kind = "call" THEN "call" ELSE "done"
        /\ cur' = eff.call
        /\ outcome' = IF eff.kind = "call" THEN outcome
                      ELSE [code |-> eff.code, status |-> eff.status]

\* lines 179-210: from the payload to the first broker call
Receive(p) ==
    /\ pc = "idle"
    /\ calls' = <<>>
    /\ pos' = NoPos
    /\ UNCHANGED <<CST, XST, now, lastOp, gw>>
    /\ UNCHANGED <<disk, tasks, loop>>
    /\ IF ~p.json
       THEN sig' = p /\ Proceed(Error(422), p, store)
       ELSE LET head == [p EXCEPT !.signal_id = Unread, !.size = UnreadNum]
                ided == [p EXCEPT !.size = UnreadNum]
            IN  IF ~Truthy(p.symbol) \/ ~Truthy(p.action)
                THEN sig' = head /\ Proceed(Error(400), p, store)
                ELSE IF p.symbol \notin DOMAIN SYMBOL_EPIC_MAP
                THEN sig' = head /\ Proceed(Error(400), p, store)
                ELSE IF p.action \notin {"buy", "sell", "close"}
                THEN sig' = head /\ Proceed(Error(400), p, store)
                ELSE IF Truthy(p.signal_id) /\ LoadRaises(store, now)
                THEN sig' = ided /\ Proceed(Error(500), p, store)
                ELSE LET a == already_processed(p.signal_id, store, now)
                     IN  IF a.ret
                         THEN sig' = ided /\ Proceed(Return(200, "duplicate_ignored", FALSE), p, a.file)
                         ELSE IF p.size # NoNum /\ FloatRaises(p.size)
                         THEN sig' = p /\ Proceed(Error(500), p, a.file)
                         ELSE /\ sig' = p
                              /\ Proceed(Then(Call("list", None, None, NoNum, NoNum, NoNum,
                                                   "snapshot")), p, a.file)

\* One broker call through capital_request, and the handler's code up to its
\* next call or its return
BrokerCall ==
    /\ pc = "call"
    /\ \E o \in CallResults([CST |-> CST, XST |-> XST], RequestOf(cur)) :
          /\ CST' = o.CST
          /\ XST' = o.XST
          /\ LET ok == ~o.raised /\
                       CASE cur.op = "list"   -> o.r.status = 200
                         [] cur.op = "delete" -> o.r.status \in {200, 204}
                         [] cur.op = "amend"  -> o.r.status \in {200, 201}
                         [] OTHER             -> o.r.status = 200
                 res == IF o.raised THEN "raised" ELSE IF ok THEN "ok" ELSE "failed"
             IN  /\ calls' = Append(calls, [cur EXCEPT !.result = res])
                 /\ IF o.raised
                    THEN UNCHANGED <<pos, sig>> /\ Proceed(Error(500), sig, store)
                    ELSE IF cur.op = "list"
                    THEN IF o.r.status # 200
                         THEN UNCHANGED <<pos, sig>> /\ Proceed(Error(500), sig, store)
                         ELSE \E p \in FoundBy[epic_of(sig)] :
                              \E s \in ReadAtDecide(sig, p) :
                                 /\ pos' = p
                                 /\ sig' = s
                                 /\ Proceed(Decide(s, p), s, store)
                    ELSE \E s \in ReadAfter(sig, cur, o.r) :
                            /\ pos' = pos
                            /\ sig' = s
                            /\ Proceed(After(s, pos, cur, o.r), s, store)
    /\ UNCHANGED <<now, lastOp, gw>>
    /\ UNCHANGED <<disk, tasks, loop>>

\* The response is sent; the process waits for the next delivery
Respond ==
    /\ pc = "done"
    /\ pc' = "idle"
    /\ sig' = NoSignal /\ cur' = NoCall /\ pos' = NoPos /\ calls' = <<>>
    /\ outcome' = NoOutcome
    /\ UNCHANGED <<CST, XST, store, now, markedAt, servedAt, lastOp, gw>>
    /\ UNCHANGED <<disk, tasks, loop>>

Tick ==
    /\ pc = "idle"
    /\ now < MaxClock
    /\ now' = now + 1
    /\ UNCHANGED <<CST, XST, store, markedAt, servedAt, lastOp, gw, pc, sig, cur, pos, calls, outcome>>
    /\ UNCHANGED <<disk, tasks, loop>>

----------------------------------------------------------------------------
(* The store functions called directly, over a running clock *)

NoOp == [op |-> "none", id |-> None, ret |-> FALSE]

StoreTick ==
    /\ pc = "idle"
    /\ now < MaxStoreClock
    /\ now' = now + 1
    /\ UNCHANGED <<CST, XST, store, markedAt, servedAt, lastOp, gw, pc, sig, cur, pos, calls, outcome>>
    /\ UNCHANGED <<disk, tasks, loop>>

CallAlreadyProcessed(id) ==
    /\ pc = "idle"
    /\ LET a == already_processed(id, store, now)
       IN  /\ store' = a.file
           /\ lastOp' = [op |-> "already_processed", id |-> id, ret |-> a.ret]
    /\ UNCHANGED <<CST, XST, now, markedAt, servedAt, gw, pc, sig, cur, pos, calls, outcome>>
    /\ UNCHANGED <<disk, tasks, loop>>

CallMarkProcessed(id) ==
    /\ pc = "idle"
    /\ LET m == mark_processed(id, store, now)
       IN  /\ store' = m.file
           /\ markedAt' = Stamp(markedAt, id, m.marked, now)
           /\ lastOp' = [op |-> "mark_processed", id |-> id, ret |-> FALSE]
    /\ UNCHANGED <<CST, XST, now, servedAt, gw, pc, sig, cur, pos, calls, outcome>>
    /\ UNCHANGED <<disk, tasks, loop>>

----------------------------------------------------------------------------
(* Concurrent deliveries: one coroutine of handle_webhook per delivery, all  *)
(* on the event loop of the process.  Each task handles a close signal with *)
(* its own signal_id for an instrument without a position: dedup lookup,     *)
(* position list through capital_request, mark_processed, return.  A task's  *)
(* steps are its accesses to the shared tokens and to the shared file.       *)

Tasks == 1..MaxTasks

TaskId(t) == IF t = 1 THEN "a" ELSE IF t = 2 THEN "b" ELSE "c"

\* pc: "new" is the coroutine suspended in `await request.body()` (line 180)
NewTask(t) ==
    [pc |-> "new", id |-> TaskId(t), retry |-> TRUE, then |-> "none",
     toks |-> [CST |-> None, XST |-> None], data |-> EmptyDict,
     marked |-> FALSE, logins |-> 0, code |-> 0]

\* The event loop runs one coroutine at a time and switches only where the
\* running one awaits; handle_webhook awaits at line 180 and nowhere else (its
\* HTTP and file calls block the thread)
AtAwait_blocking_calls(p) == p \in {"new", "login", "sent", "save"}
AtAwait(p) == p = "new"

\* A task can take a step when the loop is running it, or when the loop is
\* free and the task is suspended at an await
Runnable(t) == loop = t \/ (loop = 0 /\ AtAwait(tasks[t].pc))

\* ... and after the step the loop is free again when the task has returned
\* or awaits
Yield(t, ts) == IF ts[t].pc = "done" \/ AtAwait(ts[t].pc) THEN 0 ELSE t

Returns(t, code) == [tasks EXCEPT ![t].pc = "done", ![t].code = code]

\* line 180: the body has arrived and the loop is free to resume the task
TaskResume(t) ==
    /\ tasks[t].pc = "new"
    /\ Runnable(t)
    /\ tasks' = [tasks EXCEPT ![t].pc = "dedup"]
    /\ UNCHANGED <<CST, XST, store, now, markedAt, servedAt, lastOp, gw, pc, sig, cur, pos, calls, outcome>>
    /\ UNCHANGED disk
    /\ loop' = Yield(t, tasks')

\* line 202: already_processed(signal_id)
TaskDedup(t) ==
    /\ tasks[t].pc = "dedup"
    /\ Runnable(t)
    /\ LET a == already_processed(tasks[t].id, store, now)
       IN  /\ store' = a.file
           /\ IF a.ret
              THEN tasks' = Returns(t, 200)
              ELSE tasks' = [tasks EXCEPT ![t].pc = "enter"]
    /\ UNCHANGED <<CST, XST, now, markedAt, servedAt, lastOp, gw, pc, sig, cur, pos, calls, outcome>>
    /\ UNCHANGED disk
    /\ loop' = Yield(t, tasks')

\* lines 60-69: capital_request starts a login when a token is missing, else
\* sends the request with the tokens as they are
TaskEnter(t) ==
    /\ tasks[t].pc = "enter"
    /\ Runnable(t)
    /\ IF ~Authenticated([CST |-> CST, XST |-> XST])
       THEN tasks' = [tasks EXCEPT ![t].pc = "login", ![t].then = "send",
                                    ![t].logins = @ + 1]
       ELSE tasks' = [tasks EXCEPT ![t].pc = "sent",
                                    ![t].toks = [CST |-> CST, XST |-> XST]]
    /\ UNCHANGED <<CST, XST, store, now, markedAt, servedAt, lastOp, gw, pc, sig, cur, pos, calls, outcome>>
    /\ UNCHANGED disk
    /\ loop' = Yield(t, tasks')

\* lines 49-56: the broker answers the login that is in flight
TaskLoginAnswer(t) ==
    /\ tasks[t].pc = "login"
    /\ Runnable(t)
    /\ \E l \in LoginResponses :
          LET lg == login_to_capital([CST |-> CST, XST |-> XST], l)
          IN  /\ CST' = lg.CST
              /\ XST' = lg.XST
              /\ IF lg.raised
                 THEN tasks' = Returns(t, 500)
                 ELSE IF tasks[t].then = "send"
                 THEN tasks' = [tasks EXCEPT ![t].pc = "sent",
                                   ![t].toks = [CST |-> lg.CST, XST |-> lg.XST]]
                 ELSE tasks' = [tasks EXCEPT ![t].pc = "enter"]
    /\ UNCHANGED <<store, now, markedAt, servedAt, lastOp, gw, pc, sig, cur, pos, calls, outcome>>
    /\ UNCHANGED disk
    /\ loop' = Yield(t, tasks')

\* lines 69-90: the broker answers the request that is in flight
TaskAnswer(t) ==
    /\ tasks[t].pc = "sent"
    /\ Runnable(t)
    /\ \E r \in ResponsesTo(tasks[t].toks) :
          IF r.status = 0
          THEN tasks' = Returns(t, 500)
          ELSE IF needs_relogin(r) /\ tasks[t].retry
          THEN tasks' = [tasks EXCEPT ![t].pc = "login", ![t].then = "enter",
                                   ![t].retry = FALSE, ![t].logins = @ + 1]
          ELSE IF r.status # 200
          THEN tasks' = Returns(t, 500)
          ELSE tasks' = [tasks EXCEPT ![t].pc = "mark"]
    /\ UNCHANGED <<CST, XST, store, now, markedAt, servedAt, lastOp, gw, pc, sig, cur, pos, calls, outcome>>
    /\ UNCHANGED disk
    /\ loop' = Yield(t, tasks')

\* line 172: mark_processed reads the file into its local dict
TaskMarkLoad(t) ==
    /\ tasks[t].pc = "mark"
    /\ Runnable(t)
    /\ LET l == _load_ids(store, now)
       IN  /\ store' = l.file
           /\ tasks' = [tasks EXCEPT ![t].pc = "save", ![t].data = l.data]
    /\ UNCHANGED <<CST, XST, now, markedAt, servedAt, lastOp, gw, pc, sig, cur, pos, calls, outcome>>
    /\ UNCHANGED disk
    /\ loop' = Yield(t, tasks')

\* lines 173-174 and 219: the local dict, with the id stamped, replaces the
\* file; the handler returns
TaskMarkSave(t) ==
    /\ tasks[t].pc = "save"
    /\ Runnable(t)
    /\ LET data == [k \in DOMAIN tasks[t].data \cup {tasks[t].id} |->
                       IF k = tasks[t].id THEN isoformat(now) ELSE tasks[t].data[k]]
       IN  store' = _save_ids(data)
    /\ tasks' = [Returns(t, 200) EXCEPT ![t].marked = TRUE]
    /\ UNCHANGED <<CST, XST, now, markedAt, servedAt, lastOp, gw, pc, sig, cur, pos, calls, outcome>>
    /\ UNCHANGED disk
    /\ loop' = Yield(t, tasks')

TasksNext ==
    \E t \in Tasks :
        \/ TaskResume(t)
        \/ TaskDedup(t)
        \/ TaskEnter(t)
        \/ TaskLoginAnswer(t)
        \/ TaskAnswer(t)
        \/ TaskMarkLoad(t)
        \/ TaskMarkSave(t)

NoGw == [op |-> "none", req |-> LoginReq, raised |-> FALSE, r |-> Response(0, ""), http |-> <<>>]

\* The process after start-up: no session, no store file, no delivery
Started ==
    /\ CST = None /\ XST = None
    /\ store = EmptyDict
    /\ now = 0
    /\ markedAt = [i \in StoreIds |-> NoNum]
    /\ servedAt = [i \in StoreIds |-> NoNum]
    /\ gw = NoGw
    /\ pc = "idle"
    /\ sig = NoSignal
    /\ cur = NoCall
    /\ pos = NoPos
    /\ calls = <<>>
    /\ outcome = NoOutcome
    /\ disk = "ok"
    /\ tasks = [t \in Tasks |-> NewTask(t)]
    /\ loop = 0

Init == Started /\ lastOp = NoOp

StoreNext ==
    \/ StoreTick
    \/ \E id \in StoreIds : CallAlreadyProcessed(id)
    \/ \E id \in StoreIds : CallMarkProcessed(id)

SpecStore == Init /\ [][StoreNext]_vars

Next ==
    \/ \E p \in Payloads \cup {BadJson} : Receive(p)
    \/ BrokerCall
    \/ Respond
    \/ Tick

Spec == Init /\ [][Next]_vars

\* The handler over a backing file that can be lost, corrupted or made
\* unwritable between and during deliveries
FaultPayloads == {p \in Payloads : p.symbol = "GOLD" /\ p.action \in {"buy", "close"} /\ p.size = NoNum}

\* The file is deleted or its content replaced by something json.load
\* rejects: _load_ids reads it as {} (lines 145-148)
LoseFile ==
    /\ pc \in {"idle", "call"}
    /\ store # EmptyDict
    /\ store' = EmptyDict
    /\ UNCHANGED <<CST, XST, now, markedAt, servedAt, lastOp, gw, pc, sig, cur, pos, calls, outcome>>
    /\ UNCHANGED <<disk, tasks, loop>>

WriteProtect ==
    /\ pc \in {"idle", "call"}
    /\ disk = "ok"
    /\ disk' = "readonly"
    /\ UNCHANGED <<CST, XST, store, now, markedAt, servedAt, lastOp, gw, pc, sig, cur, pos, calls, outcome>>
    /\ UNCHANGED <<tasks, loop>>

Repair ==
    /\ pc \in {"idle", "call"}
    /\ disk = "readonly"
    /\ disk' = "ok"
    /\ UNCHANGED <<CST, XST, store, now, markedAt, servedAt, lastOp, gw, pc, sig, cur, pos, calls, outcome>>
    /\ UNCHANGED <<tasks, loop>>

FaultyNext ==
    \/ \E p \in FaultPayloads : Receive(p)
    \/ BrokerCall
    \/ Respond
    \/ Tick
    \/ LoseFile
    \/ WriteProtect
    \/ Repair

SpecFaulty == Init /\ [][FaultyNext]_vars

GatewayNext == \E req \in Requests : GatewayCall(req)

SpecGateway == Init /\ [][GatewayNext]_vars

SpecTasks == Init /\ [][TasksNext]_vars

----------------------------------------------------------------------------
(* parse_pos applied to broker records of either shape *)

\* The fields of one position as the broker may give them, flat or under
\* "position" / "market"; Absent is the shape that is not there
PositionFields ==
    [dealId : {None, "D1"}, epic : {"GOLD"}, size : {NoNum, 0, 1000},
     direction : {"BUY", "SELL"}, stopLevel : {NoNum, 0, 1000}, level : {NoNum, 2000}]

Absent ==
    [dealId |-> None, epic |-> None, size |-> NoNum, direction |-> None,
     stopLevel |-> NoNum, level |-> NoNum]

\* The broker record with flat fields f and nested fields n
Raw(f, n) ==
    [dealId |-> f.dealId, epic |-> f.epic, size |-> f.size, direction |-> f.direction,
     stopLevel |-> f.stopLevel, level |-> f.level,
     position |-> [dealId |-> n.dealId, epic |-> None, size |-> n.size,
                   direction |-> n.direction, stopLevel |-> n.stopLevel,
                   level |-> n.level, openLevel |-> NoNum],
     market |-> [epic |-> n.epic]]

ParseInputs ==
    { [op |-> "input", flat |-> f, nested |-> n, ret |-> NoPos] :
        f \in PositionFields \cup {Absent}, n \in PositionFields \cup {Absent} }

ParseInit == Started /\ lastOp \in ParseInputs

CallParsePos ==
    /\ lastOp.op = "input"
    /\ lastOp' = [lastOp EXCEPT !.op = "parse_pos",
                                !.ret = parse_pos(Raw(lastOp.flat, lastOp.nested))]
    /\ UNCHANGED <<CST, XST, store, now, markedAt, servedAt, gw, pc, sig, cur, pos, calls, outcome>>
    /\ UNCHANGED <<disk, tasks, loop>>

ParseNext == CallParsePos

SpecParse == ParseInit /\ [][ParseNext]_vars

----------------------------------------------------------------------------
(* need_sl_change applied over threshold settings, stops and reference prices *)

AbsTicks == {0, 2, 5}
PctMins == {0, 1, 2}            \* SL_PCT_MIN in units of 1 / SL_PCT_MIN_DEN
CurrentStops == {NoNum, 1000, 1001, 1002, 1005}
NewStops == {NoNum, 1000, 1002, 1003}
RefPrices == {NoNum, 1000, 2000}

ThresholdInputs ==
    { [op |-> "input", abs_tick |-> a, pct_min |-> m, current_sl |-> c, new_sl |-> n,
       ref_price |-> r, ret |-> FALSE] :
        a \in AbsTicks, m \in PctMins, c \in CurrentStops, n \in NewStops, r \in RefPrices }

ThresholdInit == Started /\ lastOp \in ThresholdInputs

CallNeedSlChange ==
    /\ lastOp.op = "input"
    /\ lastOp' = [lastOp EXCEPT
                     !.op = "need_sl_change",
                     !.ret = need_sl_change_with(lastOp.abs_tick, lastOp.pct_min, SL_PCT_MIN_DEN,
                                                 lastOp.current_sl, lastOp.new_sl, lastOp.ref_price)]
    /\ UNCHANGED <<CST, XST, store, now, markedAt, servedAt, gw, pc, sig, cur, pos, calls, outcome>>
    /\ UNCHANGED <<disk, tasks, loop>>

ThresholdNext == CallNeedSlChange

SpecThreshold == ThresholdInit /\ [][ThresholdNext]_vars

----------------------------------------------------------------------------
(* Properties *)

Indices(h, k) == {i \in DOMAIN h : h[i].k = k}
Min(S) == CHOOSE i \in S : \A j \in S : i <= j
Max(S) == CHOOSE i \in S : \A j \in S : i >= j

\* The auth-expired classification as the contract words it
AuthExpired(e) ==
    \/ e.status = 401
    \/ e.errorCode \in {"error.invalid.session.token", "error.security.account.token.invalid"}

\* C1: in every completed capital_request call, a first response classified
\* auth-expired is followed by exactly one re-authentication and, when that
\* login returns, by exactly one re-send of the identical request; a retry that
\* is auth-expired again is the end of the call and its response is what the
\* caller gets; so no call makes more than one re-authentication or sends its
\* request more than twice.
C1_OneReloginOneRetry ==
    gw.op = "capital_request" =>
        LET h        == gw.http
            sends    == Indices(h, "send")
            first    == Min(sends)
            relogins == {i \in Indices(h, "login") : sends # {} /\ i > first}
        IN  /\ Cardinality(relogins) <= 1
            /\ Cardinality(sends) <= 2
            /\ (sends # {} /\ AuthExpired(h[first])) =>
                  /\ Cardinality(relogins) = 1
                  /\ (\A i \in relogins : ~h[i].raised) =>
                        /\ Cardinality(sends) = 2
                        /\ h[Max(sends)].req = h[first].req
            /\ (Cardinality(sends) = 2 /\ AuthExpired(h[Max(sends)])) =>
                  /\ Max(sends) = Len(h)
                  /\ ~gw.raised
                  /\ gw.r.status = h[Len(h)].status
                  /\ gw.r.errorCode = h[Len(h)].errorCode

\* C10: every login whose response has a non-success status, or a success
\* status without CST or without X-SECURITY-TOKEN, fails with an error; so after
\* a login that returned, both session tokens are present.
C10_LoginNeedsBothTokens ==
    LET h      == gw.http
        logins == Indices(h, "login")
    IN  /\ \A i \in logins :
              (h[i].status # 200 \/ ~Truthy(h[i].CST) \/ ~Truthy(h[i].XST)) => h[i].raised
        /\ (logins # {} /\ ~h[Max(logins)].raised) => (Truthy(CST) /\ Truthy(XST))

RetentionTicks == IDEMP_TTL_DAYS * TicksPerDay

\* C3: for every non-empty signal id that mark_processed stamped at tick t,
\* already_processed returns TRUE at every time up to 2 days after t and FALSE
\* at every time later than that.
C3_TwoDayRetention ==
    \A id \in StoreIds :
        (Truthy(id) /\ markedAt[id] # NoNum) =>
            (already_processed(id, store, now).ret <=> now - markedAt[id] <= RetentionTicks)

\* C4: whatever the store holds, already_processed of an absent or empty
\* signal id returns FALSE and mark_processed of it leaves the store as it was.
C4_NoIdNoDedup ==
    [][ \A id \in StoreIds :
          ~Truthy(id) =>
             /\ CallAlreadyProcessed(id) => (lastOp'.ret = FALSE /\ store' = store)
             /\ CallMarkProcessed(id) => (store' = store /\ markedAt' = markedAt) ]_vars

C4_Witness ==
    /\ lastOp.op = "mark_processed"
    /\ lastOp.id = ""
    /\ DOMAIN store = {"a", "b"}
    /\ now > 0

\* The calls of this delivery that change something at the broker
Mutating == {i \in DOMAIN calls : calls[i].op \in {"delete", "close_order", "entry", "amend"}}
CallsOf(op) == {i \in DOMAIN calls : calls[i].op = op}
Handling == pc \in {"call", "done"}
Decided == Handling /\ sig.intent # Unread
IsOpen == Decided /\ sig.action \in {"buy", "sell"} /\ sig.intent # "close"
IsClose == Decided /\ (sig.action = "close" \/ sig.intent = "close")
Wanted == IF sig.action = "buy" THEN "BUY" ELSE "SELL"
Opposite(d) == IF d = "BUY" THEN "SELL" ELSE "BUY"

\* C2: a valid delivery that carries a non-empty signal id which an earlier
\* delivery was served under (a 200 other than duplicate_ignored) no more than
\* 2 days ago returns duplicate_ignored at once, without any broker call.
C2_DuplicateIgnored ==
    [][ \A id \in SignalIds :
          (  pc = "idle" /\ pc' # "idle" /\ sig'.signal_id = id /\ Truthy(id)
          /\ servedAt[id] # NoNum /\ now - servedAt[id] <= RetentionTicks )
          => ( pc' = "done" /\ outcome' = [code |-> 200, status |-> "duplicate_ignored"]
               /\ calls' = <<>> /\ CST' = CST /\ XST' = XST ) ]_vars

C2_Witness ==
    /\ pc = "done"
    /\ outcome.status = "duplicate_ignored"
    /\ sig.signal_id = "a"
    /\ servedAt["a"] # NoNum /\ now > servedAt["a"]
    /\ calls = <<>>

\* C5: handling an OPEN signal against a position in the opposite direction, the
\* first call after the snapshot is a close call (DELETE by the deal id when
\* there is one; the counter-order of the position's size against its direction
\* when there is none or the DELETE returned a failure), the entry order is sent
\* only after a close call succeeded, at most once, with the signal's direction,
\* and it is sent once that close succeeded.
C5_CloseBeforeOpen ==
    (IsOpen /\ pos.found /\ pos.direction = Opposite(Wanted)) =>
        /\ CallsOf("amend") = {}
        /\ Cardinality(CallsOf("entry")) <= 1
        /\ Cardinality(CallsOf("delete")) <= 1
        /\ Cardinality(CallsOf("close_order")) <= 1
        /\ \A i \in CallsOf("delete") : i = 2 /\ calls[i].dealId = pos.dealId /\ Truthy(pos.dealId)
        /\ \A i \in CallsOf("close_order") :
              /\ calls[i].direction = Opposite(pos.direction)
              /\ calls[i].size = pos.size
              /\ \/ i = 2 /\ ~Truthy(pos.dealId)
                 \/ i = 3 /\ calls[2].op = "delete" /\ calls[2].result = "failed"
        /\ \A i \in CallsOf("entry") :
              /\ i = Len(calls)
              /\ calls[i].direction = Wanted
              /\ calls[i - 1].op \in {"delete", "close_order"}
              /\ calls[i - 1].result = "ok"
        /\ (pc = "done" /\ Len(calls) >= 2) =>
              /\ calls[2].op = (IF Truthy(pos.dealId) THEN "delete" ELSE "close_order")
              /\ (calls[2].op = "delete" /\ calls[2].result = "failed") => CallsOf("close_order") = {3}
              /\ (  (\E i \in CallsOf("delete") \cup CallsOf("close_order") : calls[i].result = "ok")
                 /\ sig.stop_loss # BadNum ) => Cardinality(CallsOf("entry")) = 1
        /\ Handling /\ Len(calls) >= 1 /\ (pc = "done" => Len(calls) >= 2)

C5_Witness ==
    /\ pc = "done"
    /\ IsOpen /\ pos.found /\ pos.direction = Opposite(Wanted)
    /\ outcome.status = "entry executed"
    /\ Len(calls) = 4
    /\ calls[2].op = "delete" /\ calls[2].result = "failed"
    /\ calls[3].op = "close_order" /\ calls[3].result = "ok"
    /\ calls[4].op = "entry" /\ calls[4].result = "ok"

SideMismatch ==
    \/ sig.side = "long"  /\ pos.direction # "BUY"
    \/ sig.side = "short" /\ pos.direction # "SELL"

\* What closing the position in full looks like in the calls made: DELETE by
\* the deal id first when there is one, and the counter-order of the full size
\* against the position exactly when there is no deal id or the DELETE
\* returned a failure; nothing else is sent
FullClose ==
    /\ CallsOf("amend") = {} /\ CallsOf("entry") = {}
    /\ Len(calls) >= 2
    /\ calls[2].op = (IF Truthy(pos.dealId) THEN "delete" ELSE "close_order")
    /\ \A i \in CallsOf("delete") : i = 2 /\ calls[i].dealId = pos.dealId
    /\ \A i \in CallsOf("close_order") :
          /\ calls[i].direction = Opposite(pos.direction)
          /\ calls[i].size = pos.size
          /\ i = Len(calls)
    /\ CallsOf("close_order") # {} <=>
          (~Truthy(pos.dealId) \/ (calls[2].op = "delete" /\ calls[2].result = "failed"))
    /\ outcome.code = 200 <=> calls[Len(calls)].result = "ok"
    /\ outcome.code = 200 => outcome.status = "positions closed"

\* C6 as claimed: every finished CLOSE delivery (here: action "close") that
\* found a position has closed it in full, whatever else the signal carries.
C6_AlwaysClosesFully ==
    (pc = "done" /\ IsClose /\ sig.action = "close" /\ pos.found) => FullClose

\* C6, amended: every finished CLOSE delivery that found a position has closed
\* it in full unless the signal's side contradicts the position (side "long"
\* against a position that is not BUY, "short" against one that is not SELL);
\* then it made no call and returned mismatch_side_noop.
C6_ClosesFullyUnlessSideMismatch ==
    (pc = "done" /\ IsClose /\ pos.found) =>
        IF SideMismatch
        THEN Mutating = {} /\ outcome = [code |-> 200, status |-> "mismatch_side_noop"]
        ELSE FullClose

C6_Witness ==
    /\ pc = "done" /\ IsClose /\ pos.found /\ ~SideMismatch
    /\ sig.side = "long"
    /\ Len(calls) = 3
    /\ calls[2].op = "delete" /\ calls[2].result = "failed"
    /\ calls[3].op = "close_order" /\ calls[3].result = "ok" /\ calls[3].direction = "SELL"
    /\ outcome.status = "positions closed"

\* The requested stop is closer to the current one than SL_PCT_MIN of the
\* reference price (the absolute threshold is off)
WithinThreshold ==
    /\ sig.stop_loss \notin {NoNum, BadNum, UnreadNum}
    /\ pos.stopLevel # NoNum /\ pos.avg # NoNum
    /\ Abs(pos.stopLevel - sig.stop_loss) * SL_PCT_MIN_DEN < SL_PCT_MIN_NUM * pos.avg

SameDirection == IsOpen /\ pos.found /\ pos.direction = Wanted

DefaultSize(symbol) == IF symbol = "GOLD" THEN 170 ELSE 800

\* C8: an OPEN signal for a registered symbol, with numeric fields, whose
\* snapshot shows no position for the instrument makes exactly one place-order
\* call, in the signal's direction and of the signal's size (the symbol's
\* default size when it gives none), and no amend or delete call.
C8_OpenWithoutPosition ==
    (IsOpen /\ ~pos.found /\ calls # <<>> /\ calls[1].result = "ok" /\ sig.stop_loss # BadNum) =>
        /\ Mutating \subseteq {2}
        /\ pc = "call" => cur.op = "entry" /\ Len(calls) = 1
        /\ pc = "done" => Len(calls) = 2
        /\ \A i \in Mutating :
              /\ calls[i].op = "entry"
              /\ calls[i].direction = Wanted
              /\ calls[i].size = (IF sig.size = NoNum THEN DefaultSize(sig.symbol) ELSE sig.size)
        /\ cur.op = "entry" =>
              /\ cur.direction = Wanted
              /\ cur.size = (IF sig.size = NoNum THEN DefaultSize(sig.symbol) ELSE sig.size)

C8_Witness ==
    /\ pc = "done" /\ IsOpen /\ ~pos.found
    /\ sig.symbol = "NVDA" /\ sig.action = "buy" /\ sig.size = NoNum
    /\ Len(calls) = 2 /\ calls[2].op = "entry" /\ calls[2].size = 800
    /\ calls[2].direction = "BUY"
    /\ outcome.status = "entry executed"

\* C9: a served CLOSE_PARTIAL signal (action "close", intent "close_partial")
\* with ratio r in (0,1) (size 50 is 0.50) against a position of size s has
\* made one mutating call, the offsetting order of size s*r against the
\* position's direction.
C9_PartialClose ==
    (  pc = "done" /\ Decided /\ sig.action = "close" /\ sig.intent = "close_partial"
    /\ sig.size > 0 /\ sig.size < 100 /\ pos.found /\ outcome.code = 200 ) =>
        /\ Cardinality(Mutating) = 1
        /\ \A i \in Mutating :
              /\ calls[i].op = "close_order"
              /\ calls[i].direction = Opposite(pos.direction)
              /\ calls[i].size * 100 = pos.size * sig.size

\* C11: no failure of the backing file makes a request fail: a delivery with
\* well-formed numbers answers 500 only when there is a broker call that did
\* not succeed (so not before its first call, and not after a last call that
\* succeeded).
C11_StoreFailureNeverFailsRequest ==
    (  pc = "done" /\ outcome.code = 500
    /\ BadNum \notin {sig.size, sig.stop_loss, sig.take_profit} ) =>
        (calls # <<>> /\ calls[Len(calls)].result # "ok")

Others(t) == Tasks \ {t}
Waiting(u) == tasks[u].pc \in {"new", "done"}

\* C12: at most one login is in flight at any time, and while one is, every
\* other task is either still waiting to be resumed or has returned: none is
\* running, so none starts a login of its own.
C12_OneLoginInFlight ==
    /\ Cardinality({t \in Tasks : tasks[t].pc = "login"}) <= 1
    /\ \A t \in Tasks : tasks[t].pc = "login" => \A u \in Others(t) : Waiting(u)

\* A task that waited while another one logged in, then ran on its session
C12_Witness ==
    /\ tasks[1].pc = "done" /\ tasks[1].logins = 1 /\ tasks[1].marked
    /\ tasks[2].pc = "sent" /\ tasks[2].logins = 0

\* C13: between a task's read of the store and its write no other task runs,
\* and every task that has completed mark_processed has its id in the store,
\* whatever the order the tasks ran in.
C13_NoLostUpdate ==
    /\ \A t \in Tasks : tasks[t].pc = "save" => \A u \in Others(t) : Waiting(u)
    /\ \A t \in Tasks : (tasks[t].pc = "done" /\ tasks[t].marked) => tasks[t].id \in DOMAIN store

C13_Witness ==
    /\ \A t \in {1, 2} : tasks[t].pc = "done" /\ tasks[t].marked
    /\ {"a", "b"} \subseteq DOMAIN store

\* The canonical fields and the raw field each is read from
Canonical ==
    { <<"dealId", "dealId">>, <<"epic", "epic">>, <<"size", "size">>,
      <<"direction", "direction">>, <<"stopLevel", "stopLevel">>, <<"avg", "level">> }

Present(f, k) == IF k \in {"dealId", "epic", "direction"} THEN f[k] # None ELSE f[k] # NoNum

\* C14: parse_pos gives a record with flat fields only and the record with the
\* same fields nested the same canonical position; and in a record that has
\* fields in both shapes, every field that is present flat has the canonical
\* value the flat fields alone give (the nested value is not used).
C14_FlatNestedSameAndFlatPreferred ==
    lastOp.op = "parse_pos" =>
        /\ lastOp.nested = Absent => lastOp.ret = parse_pos(Raw(Absent, lastOp.flat))
        /\ \A c \in Canonical :
              Present(lastOp.flat, c[2]) =>
                  lastOp.ret[c[1]] = parse_pos(Raw(lastOp.flat, Absent))[c[1]]

\* The delivery's payload is not well-formed, as far as the handler has read it
BadInput ==
    \/ ~sig.json
    \/ sig.symbol \notin {"GOLD", "NVDA"}
    \/ sig.action \notin {"buy", "sell", "close"}
    \/ BadNum \in {sig.size, sig.stop_loss, sig.take_profit}

\* C15: a finished delivery whose payload is malformed, lacks symbol or action,
\* names an unknown symbol or action, or carries a non-numeric size, stop_loss
\* or take_profit is answered 400 or 422 and has made no broker call.
C15_ValidationBeforeBrokerCalls ==
    (pc = "done" /\ BadInput) => (outcome.code \in {400, 422} /\ calls = <<>>)

\* C16: handling an OPEN signal against a position in the same direction makes
\* no place-order call and no delete call, whatever its stop_loss and
\* take_profit are; the only mutating call it can make is one amend, of that
\* position's deal id.
C16_SameDirectionOnlyAmends ==
    SameDirection =>
        /\ CallsOf("entry") = {} /\ CallsOf("close_order") = {} /\ CallsOf("delete") = {}
        /\ Cardinality(CallsOf("amend")) <= 1
        /\ \A i \in CallsOf("amend") : calls[i].dealId = pos.dealId
        /\ pc = "call" => (cur.op = "amend" /\ cur.dealId = pos.dealId /\ CallsOf("amend") = {})

C16_Witness ==
    /\ pc = "done" /\ SameDirection
    /\ sig.action = "sell" /\ pos.direction = "SELL"
    /\ sig.stop_loss = 1002 /\ pos.stopLevel = 1000 /\ sig.take_profit = NoNum
    /\ Mutating = {2} /\ calls[2].op = "amend" /\ calls[2].result = "ok"
    /\ outcome.status = "amended stop/limit"

\* C17: a record of the store is written or refreshed only by the step that
\* ends a delivery with 200, and it is the record of that delivery's signal
\* id; so a delivery that ends in an error leaves every record as it was, and
\* an id no delivery was served under has no record when its delivery failed.
C17_OnlySuccessIsRecorded ==
    [][ /\ \A id \in DOMAIN store' :
              (id \notin DOMAIN store \/ store'[id] # store[id]) =>
                  (pc' = "done" /\ outcome'.code = 200 /\ sig'.signal_id = id)
        /\ (pc' = "done" /\ outcome'.code # 200) =>
              /\ markedAt' = markedAt
              /\ \A id \in SignalIds :
                    (sig'.signal_id = id /\ servedAt'[id] = NoNum) => id \notin DOMAIN store' ]_vars

C17_Witness ==
    /\ pc = "done" /\ outcome.code = 500
    /\ sig.signal_id = "a" /\ "a" \notin DOMAIN store
    /\ Len(calls) = 2 /\ calls[2].op = "entry" /\ calls[2].result = "failed"

\* The close step of a flip has failed: the counter-order was rejected or did
\* not return, or the DELETE did not return
CloseFailed ==
    \/ \E i \in CallsOf("close_order") : calls[i].result # "ok"
    \/ \E i \in CallsOf("delete") : calls[i].result = "raised"

\* C18: when the close step of a close-then-open has failed, the delivery is
\* over: it has sent no entry order, answers 500, and its signal id is not in
\* the store.
C18_FailedCloseAborts ==
    (IsOpen /\ pos.found /\ pos.direction = Opposite(Wanted) /\ CloseFailed) =>
        /\ pc = "done"
        /\ CallsOf("entry") = {}
        /\ outcome.code = 500
        /\ Truthy(sig.signal_id) => sig.signal_id \notin DOMAIN store

C18_Witness ==
    /\ pc = "done" /\ IsOpen /\ pos.found /\ pos.direction = Opposite(Wanted)
    /\ sig.signal_id = "a"
    /\ Len(calls) = 3
    /\ calls[2].op = "delete" /\ calls[2].result = "failed"
    /\ calls[3].op = "close_order" /\ calls[3].result = "failed"
    /\ outcome.code = 500

NoOpStatuses ==
    {"duplicate_ignored", "no_position_to_close", "mismatch_side_noop",
     "ignored (dup entry / no SL change)"}

ActedStatuses == {"entry executed", "positions closed", "amended stop/limit"}

\* C20: a delivery answered 200 without a mutating call returns one of the
\* no-op statuses, which are never returned after a mutating call, and the
\* statuses 'entry executed', 'positions closed' and 'amended stop/limit' are
\* returned only after a mutating call that succeeded.
C20_StatusTellsWhatWasDone ==
    (pc = "done" /\ outcome.code = 200) =>
        /\ outcome.status \in NoOpStatuses \cup ActedStatuses
        /\ outcome.status \in NoOpStatuses <=> Mutating = {}
        /\ outcome.status \in ActedStatuses <=> \E i \in Mutating : calls[i].result = "ok"
        /\ outcome.status = "amended stop/limit" => calls[Len(calls)].op = "amend"

C20_Witness ==
    /\ pc = "done" /\ outcome.code = 200
    /\ SameDirection /\ sig.stop_loss = NoNum /\ sig.take_profit = NoNum
    /\ outcome.status = "ignored (dup entry / no SL change)"
    /\ Len(calls) = 1

\* C19: with a proposed stop present, need_sl_change returns TRUE exactly when
\* the current stop is absent, or the absolute threshold is set (nonzero) and
\* |current - new| is greater than it, or a reference price is given and
\* |current - new| / ref is greater than the minimum percentage; FALSE in every
\* other case.
C19_ExceedsThreshold ==
    (lastOp.op = "need_sl_change" /\ lastOp.new_sl # NoNum) =>
        LET abs_diff == Abs(lastOp.current_sl - lastOp.new_sl)
        IN  lastOp.ret <=>
               \/ lastOp.current_sl = NoNum
               \/ lastOp.abs_tick # 0 /\ abs_diff > lastOp.abs_tick
               \/ /\ lastOp.ref_price # NoNum
                  /\ abs_diff * SL_PCT_MIN_DEN > lastOp.pct_min * lastOp.ref_price

=============================================================================
